---- MODULE Spec2Model ----
(***************************************************************************)
(* A model of src/lib.rs of VirtualDesktopAccessor: the process-wide       *)
(* SERVICE cell (a Mutex around a RefCell holding either a live            *)
(* VirtualDesktopService or the error that explains its absence), the      *)
(* retry/recreate loop of with_service, notify_explorer_restarted, and the *)
(* EVENTS channel with its HAS_LISTENERS flag.                             *)
(*                                                                         *)
(* The external desktop component, the factory VirtualDesktopService::     *)
(* create and the methods of the service are an environment: each call     *)
(* into them returns one of the outcomes its signature allows.             *)
(*                                                                         *)
(* Spec is the program with threads calling the public functions.          *)
(* PureSpec applies error_side_effect, or the closure of an index-taking   *)
(* function, to one input.  HealthySpec is the program from the states an  *)
(* outage can leave, with an environment that no longer fails.             *)
(***************************************************************************)
EXTENDS Integers, Sequences, FiniteSets, TLC

\* ------------------------------------------------------------------ bounds
NumThreads == 2
MaxReceivers == 2
MaxEvents == 1
DesktopCount == 2
HandleIds == 2

\* (mutant of Attempts: one iteration too many)
AttemptsOffByOne == 6 + 1

\* The attempt bound of with_service: for _ in 0..6
Attempts == 6

Threads == 1..NumThreads
Handles == 1..HandleIds
NoHandle == 0
NoThread == 0

\* ------------------------------------------------------------------ errors
\* HRESULT codes, by name.  The first four are the codes ComError::from
\* recognises; the others stand for every other native code.
HResults ==
    {"CO_E_NOTINITIALIZED", "REGDB_E_CLASSNOTREG", "RPC_S_SERVER_UNAVAILABLE",
     "CO_E_OBJNOTCONNECTED", "E_FAIL"}

\* ComError::from(hresult)
ComErrorFrom(hr) ==
    CASE hr = "CO_E_NOTINITIALIZED"      -> "NotInitialized"
      [] hr = "REGDB_E_CLASSNOTREG"      -> "ClassNotRegistered"
      [] hr = "RPC_S_SERVER_UNAVAILABLE" -> "RpcUnavailable"
      [] hr = "CO_E_OBJNOTCONNECTED"     -> "ObjectNotConnected"
      [] OTHER                           -> "Unknown"

\* enum Error
Err(kind) == [kind |-> kind, hr |-> "-"]
ComErr(hr) == [kind |-> "ComError", hr |-> hr]
NoErr == Err("-")
ErrServiceNotCreated == Err("ServiceNotCreated")
ErrDesktopNotFound == Err("DesktopNotFound")
ErrWindowNotFound == Err("WindowNotFound")
\* any variant of Error that lib.rs does not name (the `_` arm)
ErrOther == Err("Other")
ComErrors == {ComErr(hr) : hr \in HResults}
Errors ==
    ComErrors \cup {ErrServiceNotCreated, ErrDesktopNotFound, ErrWindowNotFound,
                    ErrOther}

\* Result<T, Error>; T is a number (0 stands for the unit value and false)
ROk(v) == [ok |-> TRUE, val |-> v, err |-> NoErr]
RErr(e) == [ok |-> FALSE, val |-> 0, err |-> e]
NoRes == [ok |-> FALSE, val |-> 0, err |-> NoErr]

\* Result<Box<VirtualDesktopService>, Error>: the content of the SERVICE cell
Ready(h) == [ready |-> TRUE, h |-> h, err |-> NoErr]
Unavailable(e) == [ready |-> FALSE, h |-> NoHandle, err |-> e]

\* init_runtime(): S_OK or a failing HRESULT
InitResults == {"S_OK"} \cup HResults

\* (mutant of error_side_effect: an unknown native code is retried)
error_side_effect_retry_unknown(err, initRes) ==
    IF err.kind = "ComError"
    THEN IF ComErrorFrom(err.hr) = "NotInitialized" /\ initRes # "S_OK"
         THEN RErr(ComErr(initRes)) ELSE ROk(1)
    ELSE IF err.kind = "ServiceNotCreated" THEN ROk(1)
    ELSE ROk(0)

\* (mutant of error_side_effect: the arm for Error::ServiceNotCreated is
\* missing, the cause falls into the `_` arm)
error_side_effect_no_bootstrap(err, initRes) ==
    IF err.kind = "ComError"
    THEN IF ComErrorFrom(err.hr) = "Unknown" THEN ROk(0)
         ELSE IF ComErrorFrom(err.hr) = "NotInitialized" /\ initRes # "S_OK"
         THEN RErr(ComErr(initRes)) ELSE ROk(1)
    ELSE ROk(0)

\* error_side_effect(err): Ok(true) = recreate and retry, Ok(false) = give up,
\* Err(e) = the runtime initialisation itself failed.  initRes is what
\* init_runtime returns if it is called.
error_side_effect(err, initRes) ==
    IF err.kind = "ComError"
    THEN CASE ComErrorFrom(err.hr) = "NotInitialized" ->
                   IF initRes = "S_OK" THEN ROk(1) ELSE RErr(ComErr(initRes))
           [] ComErrorFrom(err.hr) = "ClassNotRegistered" -> ROk(1)
           [] ComErrorFrom(err.hr) = "RpcUnavailable"     -> ROk(1)
           [] ComErrorFrom(err.hr) = "ObjectNotConnected" -> ROk(1)
           [] OTHER                                       -> ROk(0)
    ELSE IF err.kind = "ServiceNotCreated" THEN ROk(1)
    ELSE ROk(0)

\* whether error_side_effect(err) calls init_runtime
CallsInitRuntime(err) ==
    err.kind = "ComError" /\ ComErrorFrom(err.hr) = "NotInitialized"

\* ------------------------------------------------------------------ state
VARIABLES
    SERVICE,        \* content of the RefCell inside the SERVICE mutex
    lockHolder,     \* the thread holding the SERVICE mutex, or NoThread
    poisoned,       \* the mutex was poisoned by a panic under the lock
    HAS_LISTENERS,  \* the AtomicBool
    EVENTS,         \* the messages in the unbounded channel, oldest first
    alive,          \* the service handles that exist (created, not dropped)
    subscribed,     \* the alive handles whose notifications feed EVENTS.0
    nEvents,        \* how many events were sent so far
    nRecv,          \* how many receivers get_event_receiver handed out
    received,       \* per receiver, the events it took from the channel
    recreated,      \* a handle was replaced after the first receiver was handed out
    undisturbed,    \* the external component never failed so far
    client,         \* which part of the public API the calling program uses
    pc,             \* per thread, its position
    op, hwnd, desktop,  \* per thread, the API function in progress, its arguments
    i,              \* per thread, completed iterations of the for loop
    snap,           \* per thread, the handle the running callback was given
    lastErr,        \* per thread, the error the callback raised
    created,        \* per thread, the value create() returned, not yet stored
    res,            \* per thread, the value the function returns / returned
    nCb, nFactory,  \* per thread, callback and factory invocations of the call
    lockFailed,     \* per thread, SERVICE.lock() returned Err in this call
    phase, input, output  \* one function applied on its own: see PureSpec

vars ==
    <<SERVICE, lockHolder, poisoned, HAS_LISTENERS, EVENTS, alive, subscribed,
      nEvents, nRecv, received, recreated, undisturbed,
      client, pc, op, hwnd, desktop, i, snap, lastErr, created, res, nCb, nFactory,
      lockFailed, phase, input, output>>

pure == <<phase, input, output>>

shared == <<SERVICE, HAS_LISTENERS, alive, subscribed>>
channel == <<EVENTS, nEvents, nRecv, received>>
args == <<op, hwnd, desktop>>
counts == <<nCb, nFactory>>

Receivers == 1..MaxReceivers
Windows == {1}
Hwnds == {0, 1}
Indices == {0, DesktopCount}

WithServiceOps == {"get_desktop_count", "get_event_receiver", "move_window_to_desktop"}
Ops == WithServiceOps \cup {"notify_explorer_restarted"}

\* The calling programs modelled: one that queries and moves windows, and
\* one that listens to the events; both recreate the service on demand.
Clients == {"requests", "events"}
ClientOps(c) ==
    IF c = "requests"
    THEN {"get_desktop_count", "move_window_to_desktop", "notify_explorer_restarted"}
    ELSE {"get_event_receiver", "notify_explorer_restarted"}

\* no thread is inside a public function
ThreadsIdle ==
    /\ pc = [t \in Threads |-> "idle"]
    /\ op = [t \in Threads |-> "-"]
    /\ hwnd = [t \in Threads |-> 0]
    /\ desktop = [t \in Threads |-> 0]
    /\ i = [t \in Threads |-> 0]
    /\ snap = [t \in Threads |-> NoHandle]
    /\ lastErr = [t \in Threads |-> NoErr]
    /\ created = [t \in Threads |-> Unavailable(NoErr)]
    /\ res = [t \in Threads |-> NoRes]
    /\ nCb = [t \in Threads |-> 0]
    /\ nFactory = [t \in Threads |-> 0]
    /\ lockFailed = [t \in Threads |-> FALSE]

\* the statics as they are constructed, no call in progress
ProgramInit ==
    /\ SERVICE = Unavailable(ErrServiceNotCreated)
    /\ lockHolder = NoThread
    /\ poisoned = FALSE
    /\ HAS_LISTENERS = FALSE
    /\ EVENTS = <<>>
    /\ alive = {}
    /\ subscribed = {}
    /\ nEvents = 0
    /\ nRecv = 0
    /\ received = [r \in Receivers |-> <<>>]
    /\ recreated = FALSE
    /\ undisturbed = TRUE
    /\ client \in Clients
    /\ ThreadsIdle

Init ==
    /\ ProgramInit
    /\ phase = "-"
    /\ input = "-"
    /\ output = "-"

\* ------------------------------------------------------------------ helpers
\* what the external component can answer to one request instead of serving
\* it: nothing (NoErr), a native failure, or another non-domain error
Faults == {NoErr} \cup ComErrors \cup {ErrServiceNotCreated, ErrOther}

\* a failure of the factory VirtualDesktopService::create()
FactoryErrors == ComErrors

\* VirtualDesktopService::get_desktop_by_index
get_desktop_by_index(d, count) ==
    IF d < count THEN ROk(d) ELSE RErr(ErrDesktopNotFound)

\* VirtualDesktopService::move_window_to_desktop
service_move_window_to_desktop(hw) ==
    IF hw \in Windows THEN ROk(0) ELSE RErr(ErrWindowNotFound)

\* the functions that take a desktop index, and those that take a window too
IndexOps ==
    {"is_window_on_desktop", "rename_desktop", "move_window_to_desktop",
     "go_to_desktop"}
WindowOps == {"is_window_on_desktop", "move_window_to_desktop"}

\* The method of VirtualDesktopService an index-taking function ends with,
\* given the identifier id the index was resolved to.  (The one window is on
\* the first desktop.)
ServiceOp(o, hw, id) ==
    CASE o = "move_window_to_desktop" -> service_move_window_to_desktop(hw)
      [] o = "is_window_on_desktop" ->
           IF hw \in Windows THEN ROk(IF id = 0 THEN 1 ELSE 0)
           ELSE RErr(ErrWindowNotFound)
      [] o \in {"rename_desktop", "go_to_desktop"} -> ROk(0)

\* (mutant of Closure: the request is issued with the index unresolved, and
\* the index is looked up afterwards)
Closure_request_first(o, hw, d, f1, f2, count) ==
    LET r1 == IF f1 # NoErr THEN RErr(f1) ELSE ServiceOp(o, hw, d)
        id == IF f2 # NoErr THEN RErr(f2) ELSE get_desktop_by_index(d, count)
    IN  IF ~r1.ok THEN [r |-> r1, issued |-> <<o>>]
        ELSE [r |-> IF id.ok THEN r1 ELSE id,
              issued |-> <<o, "get_desktop_by_index">>]

\* The closure of an index-taking function:
\*   |s| s.op(hwnd, &s.get_desktop_by_index(desktop)?)
\* The argument is evaluated first and `?` leaves the closure on its error.
\* r is the result of the closure, issued the requests made to the service;
\* f1 and f2 are what the external component answers to the first and to
\* the second of them.
Closure(o, hw, d, f1, f2, count) ==
    LET id == IF f1 # NoErr THEN RErr(f1) ELSE get_desktop_by_index(d, count)
    IN  IF ~id.ok THEN [r |-> id, issued |-> <<"get_desktop_by_index">>]
        ELSE [r |-> IF f2 # NoErr THEN RErr(f2) ELSE ServiceOp(o, hw, id.val),
              issued |-> <<"get_desktop_by_index", o>>]

\* The closure each public function passes to with_service, run against a
\* live handle; f1 and f2 are what the external component answers to the
\* first and to the second request of the closure.
Callback(o, hw, d, f1, f2, count) ==
    CASE o = "get_desktop_count" ->
           IF f1 # NoErr THEN RErr(f1) ELSE ROk(count)
      [] o = "get_event_receiver" ->
           IF f1 # NoErr THEN RErr(f1) ELSE ROk(0)
      [] o \in IndexOps -> Closure(o, hw, d, f1, f2, count).r

\* (mutant of StoresListeners: the flag is stored before the subscription is
\* known to have succeeded)
StoresListeners_before_subscribing(o, r) == o = "get_event_receiver"

\* The closure of get_event_receiver: s.get_event_receiver()?; then
\* HAS_LISTENERS.store(true, ..).  r is the result of the closure.
StoresListeners(o, r) == o = "get_event_receiver" /\ r.ok

\* the handle a successful create() returns: the lowest free identity
NewHandle == CHOOSE h \in Handles \ alive : \A k \in Handles \ alive : h <= k

\* a domain error says the request was invalid, not that the component failed
IsDomainError(e) == e \in {ErrDesktopNotFound, ErrWindowNotFound}

\* ------------------------------------------------------------------ actions
\* A thread calls a public function with some arguments; the call takes
\* effect when the thread gets the mutex, so a thread blocked in
\* SERVICE.lock() is a thread whose Lock actions are not enabled.
\* (get_event_receiver: only as many calls as receivers are modelled.)
Calls ==
    {c \in [op : ClientOps(client), hwnd : Hwnds, desktop : Indices] :
        /\ c.op # "move_window_to_desktop" => c.hwnd = 0 /\ c.desktop = 0
        /\ c.op = "get_event_receiver" =>
             nRecv < MaxReceivers}

\* (mutant of LockOk: the lock is granted while another thread holds it)
LockOk_no_exclusion(t) ==
    /\ pc[t] = "idle"
    /\ ~poisoned
    /\ \E c \in Calls :
         /\ op' = [op EXCEPT ![t] = c.op]
         /\ hwnd' = [hwnd EXCEPT ![t] = c.hwnd]
         /\ desktop' = [desktop EXCEPT ![t] = c.desktop]
         /\ pc' = [pc EXCEPT ![t] =
                IF c.op = "notify_explorer_restarted" THEN "n_create" ELSE "head"]
    /\ lockHolder' = t
    /\ UNCHANGED <<pure, client, shared, channel, recreated, undisturbed, poisoned,
                   i, snap, lastErr, created, res, counts, lockFailed>>

\* SERVICE.lock() returns Ok(cell)
LockOk(t) ==
    /\ pc[t] = "idle"
    /\ lockHolder = NoThread
    /\ ~poisoned
    /\ \E c \in Calls :
         /\ op' = [op EXCEPT ![t] = c.op]
         /\ hwnd' = [hwnd EXCEPT ![t] = c.hwnd]
         /\ desktop' = [desktop EXCEPT ![t] = c.desktop]
         /\ pc' = [pc EXCEPT ![t] =
                IF c.op = "notify_explorer_restarted" THEN "n_create" ELSE "head"]
    /\ lockHolder' = t
    /\ UNCHANGED <<pure, client, shared, channel, recreated, undisturbed, poisoned,
                   i, snap, lastErr, created, res, counts, lockFailed>>

\* (mutant of LockPoisoned: the guard is taken out of the PoisonError and
\* the call goes on as if the lock had been acquired)
LockPoisoned_recovers(t) ==
    /\ pc[t] = "idle"
    /\ lockHolder = NoThread
    /\ poisoned
    /\ \E c \in Calls :
         /\ op' = [op EXCEPT ![t] = c.op]
         /\ hwnd' = [hwnd EXCEPT ![t] = c.hwnd]
         /\ desktop' = [desktop EXCEPT ![t] = c.desktop]
         /\ pc' = [pc EXCEPT ![t] =
                IF c.op = "notify_explorer_restarted" THEN "n_create" ELSE "head"]
    /\ lockHolder' = t
    /\ UNCHANGED <<pure, client, shared, channel, recreated, undisturbed,
                   poisoned, i, snap, lastErr, created, res, counts, lockFailed>>

\* SERVICE.lock() returns Err(_): with_service answers ServiceNotCreated,
\* notify_explorer_restarted answers Ok(())
LockPoisoned(t) ==
    /\ pc[t] = "idle"
    /\ lockHolder = NoThread
    /\ poisoned
    /\ \E c \in Calls :
         /\ op' = [op EXCEPT ![t] = c.op]
         /\ hwnd' = [hwnd EXCEPT ![t] = c.hwnd]
         /\ desktop' = [desktop EXCEPT ![t] = c.desktop]
         /\ res' = [res EXCEPT ![t] =
                 IF c.op = "notify_explorer_restarted" THEN ROk(0)
                 ELSE RErr(ErrServiceNotCreated)]
    /\ lockHolder' = t
    /\ lockFailed' = [lockFailed EXCEPT ![t] = TRUE]
    /\ pc' = [pc EXCEPT ![t] = "returning"]
    /\ UNCHANGED <<pure, client, shared, channel, recreated, undisturbed, poisoned,
                   i, snap, lastErr, created, counts>>

\* for _ in 0..6, cell.borrow() is Ok(v): cb(&v) starts
BorrowReady(t) ==
    /\ pc[t] = "head"
    /\ i[t] < Attempts
    /\ SERVICE.ready
    /\ snap' = [snap EXCEPT ![t] = SERVICE.h]
    /\ nCb' = [nCb EXCEPT ![t] = @ + 1]
    /\ pc' = [pc EXCEPT ![t] = "cb"]
    /\ UNCHANGED <<pure, client, shared, channel, recreated, undisturbed, lockHolder,
                   poisoned, args, i, lastErr, created, res, nFactory, lockFailed>>

\* (mutant of BorrowUnavailable: the stored error is returned, no recreation)
BorrowUnavailable_returns_error(t) ==
    /\ pc[t] = "head"
    /\ i[t] < Attempts
    /\ ~SERVICE.ready
    /\ res' = [res EXCEPT ![t] = RErr(SERVICE.err)]
    /\ pc' = [pc EXCEPT ![t] = "returning"]
    /\ UNCHANGED <<pure, client, shared, channel, recreated, undisturbed, lockHolder,
                   poisoned, args, i, snap, lastErr, created, counts,
                   lockFailed>>

\* (mutant of BorrowUnavailable: the stored error is handled like an error of
\* the callback, so a fatal one is returned)
BorrowUnavailable_classified(t) ==
    /\ pc[t] = "head"
    /\ i[t] < Attempts
    /\ ~SERVICE.ready
    /\ \E initRes \in InitResults :
         LET v == error_side_effect(SERVICE.err, initRes)
         IN  IF v.ok /\ v.val = 1
             THEN /\ pc' = [pc EXCEPT ![t] = "create"]
                  /\ UNCHANGED res
             ELSE /\ pc' = [pc EXCEPT ![t] = "returning"]
                  /\ res' = [res EXCEPT ![t] =
                               IF v.ok THEN RErr(SERVICE.err) ELSE RErr(v.err)]
    /\ UNCHANGED <<pure, client, shared, channel, recreated, undisturbed, lockHolder,
                   poisoned, args, i, snap, lastErr, created, counts,
                   lockFailed>>

\* for _ in 0..6, cell.borrow() is Err(err): error_side_effect(&err) is
\* called and its result ignored; recreation follows
BorrowUnavailable(t) ==
    /\ pc[t] = "head"
    /\ i[t] < Attempts
    /\ ~SERVICE.ready
    /\ \E initRes \in InitResults :
         LET ignored == error_side_effect(SERVICE.err, initRes)
         IN  pc' = [pc EXCEPT ![t] = "create"]
    /\ UNCHANGED <<pure, client, shared, channel, recreated, undisturbed, lockHolder,
                   poisoned, args, i, snap, lastErr, created, res, counts,
                   lockFailed>>

\* (mutant of Exhausted: the cause stored last is returned)
Exhausted_returns_cause(t) ==
    /\ pc[t] = "head"
    /\ i[t] >= Attempts
    /\ res' = [res EXCEPT ![t] =
                 IF SERVICE.ready THEN RErr(ComErr("RPC_S_SERVER_UNAVAILABLE"))
                 ELSE RErr(SERVICE.err)]
    /\ pc' = [pc EXCEPT ![t] = "returning"]
    /\ UNCHANGED <<pure, client, shared, channel, recreated, undisturbed, lockHolder,
                   poisoned, args, i, snap, lastErr, created, counts, lockFailed>>

\* (mutant of Exhausted: the handle the last recreation stored is tried
\* once more before giving up)
Exhausted_tries_last_handle(t) ==
    /\ pc[t] = "head"
    /\ i[t] >= Attempts
    /\ IF SERVICE.ready
       THEN /\ snap' = [snap EXCEPT ![t] = SERVICE.h]
            /\ nCb' = [nCb EXCEPT ![t] = @ + 1]
            /\ pc' = [pc EXCEPT ![t] = "cb"]
            /\ UNCHANGED res
       ELSE /\ res' = [res EXCEPT ![t] = RErr(ErrServiceNotCreated)]
            /\ pc' = [pc EXCEPT ![t] = "returning"]
            /\ UNCHANGED <<snap, nCb>>
    /\ UNCHANGED <<pure, client, shared, channel, recreated, undisturbed,
                   lockHolder, poisoned, args, i, lastErr, created, nFactory,
                   lockFailed>>

\* the for loop ran out: Err(Error::ServiceNotCreated)
Exhausted(t) ==
    /\ pc[t] = "head"
    /\ i[t] >= Attempts
    /\ res' = [res EXCEPT ![t] = RErr(ErrServiceNotCreated)]
    /\ pc' = [pc EXCEPT ![t] = "returning"]
    /\ UNCHANGED <<pure, client, shared, channel, recreated, undisturbed, lockHolder,
                   poisoned, args, i, snap, lastErr, created, counts, lockFailed>>

\* cb(&v) returns.  Ok(r): with_service returns Ok(r).  Err(err): the error
\* is classified next.  The closure of get_event_receiver stores
\* HAS_LISTENERS after a successful subscription.
CbReturn(t) ==
    /\ pc[t] = "cb"
    /\ \E f1 \in Faults, f2 \in Faults :
         LET r == Callback(op[t], hwnd[t], desktop[t], f1, f2, DesktopCount)
         IN  /\ undisturbed' = (undisturbed /\ (r.ok \/ IsDomainError(r.err)))
             /\ IF r.ok
                THEN /\ res' = [res EXCEPT ![t] = r]
                     /\ pc' = [pc EXCEPT ![t] = "returning"]
                     /\ UNCHANGED lastErr
                ELSE /\ lastErr' = [lastErr EXCEPT ![t] = r.err]
                     /\ pc' = [pc EXCEPT ![t] = "classify"]
                     /\ UNCHANGED res
             /\ subscribed' = IF op[t] = "get_event_receiver" /\ r.ok
                              THEN subscribed \cup {snap[t]} ELSE subscribed
             /\ HAS_LISTENERS' = (HAS_LISTENERS \/ StoresListeners(op[t], r))
    /\ UNCHANGED <<pure, client, SERVICE, alive, channel, recreated, lockHolder,
                   poisoned, args, i, snap, created, counts, lockFailed>>

\* cb(&v) panics: the thread unwinds (its frames are gone), the guard is
\* dropped while panicking and the mutex is poisoned
CbPanic(t) ==
    /\ pc[t] = "cb"
    /\ pc' = [pc EXCEPT ![t] = "panicked"]
    /\ poisoned' = TRUE
    /\ lockHolder' = NoThread
    /\ undisturbed' = FALSE
    /\ op' = [op EXCEPT ![t] = "-"]
    /\ hwnd' = [hwnd EXCEPT ![t] = 0]
    /\ desktop' = [desktop EXCEPT ![t] = 0]
    /\ i' = [i EXCEPT ![t] = 0]
    /\ snap' = [snap EXCEPT ![t] = NoHandle]
    /\ nCb' = [nCb EXCEPT ![t] = 0]
    /\ nFactory' = [nFactory EXCEPT ![t] = 0]
    /\ UNCHANGED <<pure, client, shared, channel, recreated, lastErr, created, res,
                   lockFailed>>

\* (mutant of Classify: the Err arm is treated like Ok(true), a failure of
\* init_runtime does not end the call)
Classify_ignores_init_failure(t) ==
    /\ pc[t] = "classify"
    /\ \E initRes \in InitResults :
         LET v == error_side_effect(lastErr[t], initRes)
         IN  IF ~v.ok \/ v.val = 1
             THEN /\ pc' = [pc EXCEPT ![t] = "create"]
                  /\ UNCHANGED res
             ELSE /\ pc' = [pc EXCEPT ![t] = "returning"]
                  /\ res' = [res EXCEPT ![t] = RErr(lastErr[t])]
    /\ lastErr' = [lastErr EXCEPT ![t] = NoErr]
    /\ UNCHANGED <<pure, client, shared, channel, recreated, undisturbed,
                   lockHolder, poisoned, args, i, snap, created, counts,
                   lockFailed>>

\* match error_side_effect(&err) { Ok(false) => return Err(err),
\*   Ok(true) => (), Err(err) => return Err(err) }
Classify(t) ==
    /\ pc[t] = "classify"
    /\ \E initRes \in InitResults :
         LET v == error_side_effect(lastErr[t], initRes)
         IN  IF v.ok /\ v.val = 1
             THEN /\ pc' = [pc EXCEPT ![t] = "create"]
                  /\ UNCHANGED res
             ELSE /\ pc' = [pc EXCEPT ![t] = "returning"]
                  /\ res' = [res EXCEPT ![t] =
                               IF v.ok THEN RErr(lastErr[t]) ELSE RErr(v.err)]
    /\ lastErr' = [lastErr EXCEPT ![t] = NoErr]
    /\ UNCHANGED <<pure, client, shared, channel, recreated, undisturbed, lockHolder,
                   poisoned, args, i, snap, created, counts, lockFailed>>

\* VirtualDesktopService::create(): a new live handle, subscribed to the
\* notifications when HAS_LISTENERS is set, or an error.  The next position
\* of thread t is `to` on success and `toErr` on failure.
Factory(t, to, toErr) ==
    /\ nFactory' = [nFactory EXCEPT ![t] = @ + 1]
    /\ \/ /\ Handles \ alive # {}
          /\ created' = [created EXCEPT ![t] = Ready(NewHandle)]
          /\ alive' = alive \cup {NewHandle}
          /\ subscribed' = IF HAS_LISTENERS THEN subscribed \cup {NewHandle}
                           ELSE subscribed
          /\ pc' = [pc EXCEPT ![t] = to]
          /\ UNCHANGED undisturbed
       \/ /\ \E e \in FactoryErrors :
               created' = [created EXCEPT ![t] = Unavailable(e)]
          /\ pc' = [pc EXCEPT ![t] = toErr]
          /\ undisturbed' = FALSE
          /\ UNCHANGED <<alive, subscribed>>

\* the value the cell held is dropped when it is replaced by v
Store(v) ==
    /\ SERVICE' = v
    /\ alive' = IF SERVICE.ready THEN alive \ {SERVICE.h} ELSE alive
    /\ subscribed' = IF SERVICE.ready THEN subscribed \ {SERVICE.h} ELSE subscribed
    /\ recreated' = (recreated \/ (v.ready /\ SERVICE.ready /\ nRecv >= 1))

\* with_service: the argument of cell.replace(..) is evaluated
Create(t) ==
    /\ pc[t] = "create"
    /\ Factory(t, "replace", "replace")
    /\ UNCHANGED <<pure, client, SERVICE, HAS_LISTENERS, channel, recreated, lockHolder,
                   poisoned, args, i, snap, lastErr, res, nCb, lockFailed>>

\* (mutant of Replace: the created value is dropped, not stored)
Replace_not_stored(t) ==
    /\ pc[t] = "replace"
    /\ alive' = IF created[t].ready THEN alive \ {created[t].h} ELSE alive
    /\ subscribed' = IF created[t].ready THEN subscribed \ {created[t].h}
                     ELSE subscribed
    /\ created' = [created EXCEPT ![t] = Unavailable(NoErr)]
    /\ i' = [i EXCEPT ![t] = @ + 1]
    /\ pc' = [pc EXCEPT ![t] = "head"]
    /\ UNCHANGED <<pure, client, SERVICE, recreated, HAS_LISTENERS, channel, undisturbed,
                   lockHolder, poisoned, args, snap, lastErr, res, counts,
                   lockFailed>>

\* with_service: let _ = cell.replace(..); the iteration ends
Replace(t) ==
    /\ pc[t] = "replace"
    /\ Store(created[t])
    /\ created' = [created EXCEPT ![t] = Unavailable(NoErr)]
    /\ i' = [i EXCEPT ![t] = @ + 1]
    /\ pc' = [pc EXCEPT ![t] = "head"]
    /\ UNCHANGED <<pure, client, HAS_LISTENERS, channel, undisturbed, lockHolder,
                   poisoned, args, snap, lastErr, res, counts, lockFailed>>

\* (mutant of NotifyCreate: the `?` is missing, the result of create() goes
\* into the cell whether Ok or Err, as in with_service)
NotifyCreate_stores_error(t) ==
    /\ pc[t] = "n_create"
    /\ Factory(t, "n_replace", "n_replace")
    /\ UNCHANGED <<pure, client, SERVICE, HAS_LISTENERS, channel, recreated,
                   lockHolder, poisoned, args, i, snap, lastErr, res, nCb,
                   lockFailed>>

\* notify_explorer_restarted: VirtualDesktopService::create()? ; the error
\* of a failed creation is returned at once
NotifyCreate(t) ==
    /\ pc[t] = "n_create"
    /\ Factory(t, "n_replace", "returning")
    /\ res' = [res EXCEPT ![t] =
                 IF created'[t].ready THEN NoRes ELSE RErr(created'[t].err)]
    /\ UNCHANGED <<pure, client, SERVICE, HAS_LISTENERS, channel, recreated, lockHolder,
                   poisoned, args, i, snap, lastErr, nCb, lockFailed>>

\* notify_explorer_restarted: let _ = (*cell).replace(Ok(..)); Ok(())
NotifyReplace(t) ==
    /\ pc[t] = "n_replace"
    /\ Store(created[t])
    /\ created' = [created EXCEPT ![t] = Unavailable(NoErr)]
    /\ res' = [res EXCEPT ![t] = ROk(0)]
    /\ pc' = [pc EXCEPT ![t] = "returning"]
    /\ UNCHANGED <<pure, client, HAS_LISTENERS, channel, undisturbed, lockHolder,
                   poisoned, args, i, snap, lastErr, counts, lockFailed>>

\* The function returns: the guard is dropped and the caller gets res[t].
\* get_event_receiver discards the result of with_service and returns
\* EVENTS.1.clone(), a new receiver of the channel.
Release(t) ==
    /\ pc[t] = "returning"
    /\ lockHolder' = NoThread
    /\ pc' = [pc EXCEPT ![t] = "idle"]
    /\ nRecv' = IF op[t] = "get_event_receiver" THEN nRecv + 1 ELSE nRecv
    /\ op' = [op EXCEPT ![t] = "-"]
    /\ res' = [res EXCEPT ![t] = NoRes]
    /\ hwnd' = [hwnd EXCEPT ![t] = 0]
    /\ desktop' = [desktop EXCEPT ![t] = 0]
    /\ i' = [i EXCEPT ![t] = 0]
    /\ snap' = [snap EXCEPT ![t] = NoHandle]
    /\ lastErr' = [lastErr EXCEPT ![t] = NoErr]
    /\ created' = [created EXCEPT ![t] = Unavailable(NoErr)]
    /\ nCb' = [nCb EXCEPT ![t] = 0]
    /\ nFactory' = [nFactory EXCEPT ![t] = 0]
    /\ lockFailed' = [lockFailed EXCEPT ![t] = FALSE]
    /\ UNCHANGED <<pure, client, shared, EVENTS, nEvents, received, recreated, undisturbed,
                   poisoned>>

\* The external component raises a notification (a desktop was created,
\* destroyed, renamed, ...): the listener of a subscribed live handle sends
\* it into EVENTS.0.
DesktopEvent ==
    /\ nEvents < MaxEvents
    /\ subscribed # {}
    /\ nEvents' = nEvents + 1
    /\ EVENTS' = Append(EVENTS, [id |-> nEvents + 1, nrecv |-> nRecv,
                                 post |-> recreated])
    /\ UNCHANGED <<pure, client, shared, nRecv, received, recreated, undisturbed, lockHolder,
                   poisoned, pc, args, i, snap, lastErr, created, res, counts,
                   lockFailed>>

\* receiver r takes the oldest message of the channel: Receiver::recv on the
\* receiving side shared by every clone
Recv(r) ==
    /\ r <= nRecv
    /\ EVENTS # <<>>
    /\ received' = [received EXCEPT ![r] = Append(@, Head(EVENTS))]
    /\ EVENTS' = Tail(EVENTS)
    /\ UNCHANGED <<pure, client, shared, nEvents, nRecv, recreated, undisturbed,
                   lockHolder, poisoned, pc, args, i, snap, lastErr, created,
                   res, counts, lockFailed>>

Next ==
    \/ \E t \in Threads : LockOk(t)
    \/ \E t \in Threads : LockPoisoned(t)
    \/ \E t \in Threads : BorrowReady(t)
    \/ \E t \in Threads : BorrowUnavailable(t)
    \/ \E t \in Threads : Exhausted(t)
    \/ \E t \in Threads : CbReturn(t)
    \/ \E t \in Threads : CbPanic(t)
    \/ \E t \in Threads : Classify(t)
    \/ \E t \in Threads : Create(t)
    \/ \E t \in Threads : Replace(t)
    \/ \E t \in Threads : NotifyCreate(t)
    \/ \E t \in Threads : NotifyReplace(t)
    \/ \E t \in Threads : Release(t)
    \/ DesktopEvent
    \/ \E r \in Receivers : Recv(r)

Spec == Init /\ [][Next]_vars

\* ------------------------------------------------ the functions on their own
\* error_side_effect and the closures of the index-taking functions depend
\* on their arguments and on the answers of the environment only.  PureSpec
\* applies one of them to one input drawn from the sets below; the statics
\* stay as constructed.
NativeCodes == HResults \cup {"E_INVALIDARG", "E_ACCESSDENIED"}
ClassifierInputs ==
    [fn : {"error_side_effect"},
     err : (Errors \cup {ComErr(hr) : hr \in NativeCodes}),
     initRes : {"S_OK"} \cup NativeCodes]
ClosureInputs ==
    [fn : IndexOps, hwnd : Hwnds, desktop : 0..(DesktopCount + 1),
     f1 : Faults, f2 : Faults]

PureInit ==
    /\ ProgramInit
    /\ client = "requests"
    /\ phase = "input"
    /\ input \in ClassifierInputs \cup ClosureInputs
    /\ output = "-"

\* error_side_effect(&err): v is what it returns, inits how many times it
\* called init_runtime
ApplyClassifier ==
    /\ phase = "input"
    /\ input.fn = "error_side_effect"
    /\ output' = [v |-> error_side_effect(input.err, input.initRes),
                  inits |-> IF CallsInitRuntime(input.err) THEN 1 ELSE 0]
    /\ phase' = "done"
    /\ UNCHANGED <<input, client, shared, channel, recreated, undisturbed,
                   lockHolder, poisoned, pc, args, i, snap, lastErr, created,
                   res, counts, lockFailed>>

\* the closure of an index-taking function runs once against a live handle
ApplyClosure ==
    /\ phase = "input"
    /\ input.fn \in IndexOps
    /\ output' = Closure(input.fn, input.hwnd, input.desktop, input.f1,
                         input.f2, DesktopCount)
    /\ phase' = "done"
    /\ UNCHANGED <<input, client, shared, channel, recreated, undisturbed,
                   lockHolder, poisoned, pc, args, i, snap, lastErr, created,
                   res, counts, lockFailed>>

PureNext == ApplyClassifier \/ ApplyClosure

PureSpec == PureInit /\ [][PureNext]_vars

\* ------------------------------------------------------------------ claims
\* The classification the specification states (section 4.1), written out
\* independently of error_side_effect.
RecoverableCodes ==
    {"CO_E_NOTINITIALIZED", "REGDB_E_CLASSNOTREG", "RPC_S_SERVER_UNAVAILABLE",
     "CO_E_OBJNOTCONNECTED"}
RecoverableCauses == {ComErr(hr) : hr \in RecoverableCodes} \cup {ErrServiceNotCreated}
FatalCauses == Errors \ RecoverableCauses

\* the positions of a thread inside with_service or notify_explorer_restarted
\* between SERVICE.lock() and the drop of the guard
UnderLock ==
    {"head", "cb", "classify", "create", "replace", "n_create", "n_replace",
     "returning"}

\* C1: when the callback raised a Fatal cause on a Ready handle, the next step
\* of the call returns exactly that error; until then and in that step the
\* cell keeps its handle, the factory is not invoked and the callback is not
\* invoked again; a call that is returning only releases the lock.
C1_FatalReturnedAtOnce ==
    [][\A t \in Threads :
         /\ (pc[t] = "classify" /\ lastErr[t] \in FatalCauses) =>
              /\ SERVICE' = SERVICE
              /\ alive' = alive
              /\ nFactory'[t] = nFactory[t]
              /\ nCb'[t] = nCb[t]
              /\ \/ pc'[t] = "classify"
                 \/ pc'[t] = "returning" /\ res'[t] = RErr(lastErr[t])
         /\ pc[t] = "returning" => pc'[t] \in {"returning", "idle"}]_vars

\* C1's case: a call whose first callback invocation, on the handle the cell
\* already held, raised DesktopNotFound, and which returns it
C1_Witness ==
    /\ \E t \in Threads :
         /\ pc[t] = "returning" /\ res[t] = RErr(ErrDesktopNotFound)
         /\ nCb[t] = 1 /\ nFactory[t] = 0 /\ SERVICE.ready
         /\ SERVICE.h = snap[t]

\* C2: when the callback raised a Recoverable cause, classification leads to
\* the recreation step (or, for NotInitialized only, to the return of the
\* failure of init_runtime); the recreation step invokes the factory exactly
\* once, and its result, Ready or Unavailable, replaces the cell content
\* before the loop reads the cell again; no callback runs in between.
C2_OneRecreationPerRecoverable ==
    [][\A t \in Threads :
         /\ (pc[t] = "classify" /\ lastErr[t] \in RecoverableCauses
               /\ pc'[t] # "classify") =>
              \/ pc'[t] = "create" /\ UNCHANGED <<SERVICE, nFactory, nCb>>
              \/ /\ lastErr[t] = ComErr("CO_E_NOTINITIALIZED")
                 /\ pc'[t] = "returning"
                 /\ ~res'[t].ok /\ res'[t].err \in ComErrors
         /\ (pc[t] = "create" /\ pc'[t] # "create") =>
              /\ pc'[t] = "replace"
              /\ nFactory'[t] = nFactory[t] + 1
              /\ nCb'[t] = nCb[t]
              /\ SERVICE' = SERVICE
         /\ (pc[t] = "replace" /\ pc'[t] # "replace") =>
              /\ pc'[t] = "head"
              /\ SERVICE' = created[t]
              /\ nFactory'[t] = nFactory[t]
              /\ nCb'[t] = nCb[t]
              /\ i'[t] = i[t] + 1]_vars

\* C2's case: one callback invocation failed with a recoverable cause, one
\* factory invocation followed and its result is in the cell
C2_Witness ==
    \E t \in Threads :
        /\ pc[t] = "head" /\ nCb[t] = 1 /\ nFactory[t] = 1 /\ i[t] = 1
        /\ ~SERVICE.ready /\ SERVICE.err = ComErr("E_FAIL")

\* C3: a with_service call invokes the callback at most 6 times and the
\* factory at most 6 times, and after the 6th iteration it cannot but return.
C3_AtMostSixAttempts ==
    \A t \in Threads :
        /\ nCb[t] <= 6
        /\ nFactory[t] <= 6
        /\ i[t] <= 6
        /\ pc[t] \in {"cb", "classify", "create", "replace"} => i[t] < 6

\* C3's case: a call that invoked the callback 6 times and the factory 6 times
C3_Witness ==
    \E t \in Threads :
        pc[t] = "returning" /\ nCb[t] = 6 /\ nFactory[t] = 6

\* C4: a with_service call that used up its 6 attempts returns
\* ServiceNotCreated, and a with_service call returns ServiceNotCreated only
\* then or when the lock could not be taken.
C4_ExhaustedIsServiceNotCreated ==
    \A t \in Threads :
        (pc[t] = "returning" /\ op[t] \in WithServiceOps) =>
            /\ i[t] = 6 => res[t] = RErr(ErrServiceNotCreated)
            /\ res[t] = RErr(ErrServiceNotCreated) => (i[t] = 6 \/ lockFailed[t])

\* C4's case: the 6th attempt's callback failed with a recoverable cause and
\* the call returns ServiceNotCreated with the lock taken normally
C4_Witness ==
    \E t \in Threads :
        /\ pc[t] = "returning" /\ i[t] = 6 /\ nCb[t] = 6 /\ ~lockFailed[t]
        /\ res[t] = RErr(ErrServiceNotCreated)

\* C5: no public function returns an error whose cause is one of the four
\* recoverable COM codes.  (get_event_receiver returns no error at all; the
\* other functions return res[t] when they release the lock.)
C5_NoRecoverableEscapes ==
    \A t \in Threads :
        (pc[t] = "returning" /\ op[t] # "get_event_receiver") =>
            (res[t].ok \/ res[t].err \notin {ComErr(hr) : hr \in RecoverableCodes})

\* C6: at most one thread is between SERVICE.lock() and the drop of the
\* guard, and it is the lock holder; the cell changes only in the replace
\* step of the lock holder; while a callback runs (and while its error is
\* classified) the cell holds the live handle the callback was given.
C6_OneThreadInProtocol ==
    /\ [](\A t, u \in Threads :
            /\ pc[t] \in UnderLock => lockHolder = t
            /\ (pc[t] \in UnderLock /\ pc[u] \in UnderLock) => t = u
            /\ pc[t] \in {"cb", "classify"} =>
                 SERVICE = Ready(snap[t]) /\ snap[t] \in alive)
    /\ [][SERVICE' # SERVICE =>
            /\ lockHolder \in Threads
            /\ pc[lockHolder] \in {"replace", "n_replace"}
            /\ pc'[lockHolder] # pc[lockHolder]]_vars

\* C6's case: a callback is running under the lock while another thread that
\* could call cannot get the lock
C6_Witness ==
    \E t, u \in Threads :
        /\ t # u
        /\ pc[t] = "cb" /\ lockHolder = t
        /\ pc[u] = "idle" /\ ~poisoned
        /\ ~ENABLED LockOk(u)

\* C7: while the external component is healthy (the factory and every request
\* succeeded so far), every get_desktop_count call, from whichever thread and
\* whether it found the cell never-created or Ready, returns Ok with the one
\* count of desktops.
C7_HealthyCountsAgree ==
    undisturbed =>
        \A t \in Threads :
            (pc[t] = "returning" /\ op[t] = "get_desktop_count") =>
                res[t] = ROk(DesktopCount)

\* C7's case: a get_desktop_count call returns Ok on the service an earlier
\* call created, while another thread is kept waiting
C7_Witness ==
    \E t, u \in Threads :
        /\ t # u
        /\ undisturbed
        /\ pc[t] = "returning" /\ op[t] = "get_desktop_count"
        /\ res[t] = ROk(DesktopCount)
        /\ nFactory[t] = 0 /\ nCb[t] = 1
        /\ pc[u] = "idle"

\* the events a receiver has taken, the events still in the channel
Taken(r) == {received[r][k] : k \in 1..Len(received[r])}
Pending == {EVENTS[k] : k \in 1..Len(EVENTS)}

\* C8: an event sent when two receivers had been handed out, once received
\* through one of them, is still received (or receivable) through the other.
C8_Broadcast ==
    \A r1, r2 \in Receivers :
        (r1 <= nRecv /\ r2 <= nRecv) =>
            \A e \in Taken(r1) :
                e.nrecv >= 2 => (e \in Taken(r2) \/ e \in Pending)

\* C9: the channel is the one every receiver reads and nothing sent is lost
\* (each event sent is in the channel or was taken by a receiver), and once
\* HAS_LISTENERS is set the handle in the cell, whichever recreation put it
\* there, is subscribed: its notifications go into that channel.
C9_EventsSurviveRecreation ==
    /\ \A n \in 1..nEvents :
         \E e \in Pending \cup UNION {Taken(r) : r \in 1..nRecv} : e.id = n
    /\ (HAS_LISTENERS /\ SERVICE.ready) => SERVICE.h \in subscribed

\* C9's case: the first receiver took an event that was sent after a handle
\* was replaced, the replacement coming after the receiver was handed out
C9_Witness ==
    /\ nRecv >= 1
    /\ \E e \in Taken(1) : e.post

\* C10: HAS_LISTENERS changes only to true, in the step in which the closure
\* of get_event_receiver succeeded in subscribing the Ready handle of the
\* cell; a with_service result that is an error leaves it unchanged; and
\* when get_event_receiver returns, a receiver is handed out whatever
\* with_service returned.
C10_ReceiverAlwaysFlagOnSuccess ==
    [][/\ HAS_LISTENERS' # HAS_LISTENERS =>
            /\ HAS_LISTENERS'
            /\ \E t \in Threads :
                 /\ pc[t] = "cb" /\ op[t] = "get_event_receiver"
                 /\ SERVICE = Ready(snap[t])
                 /\ snap[t] \in subscribed'
                 /\ pc'[t] = "returning" /\ res'[t].ok
       /\ \A t \in Threads :
            /\ (op[t] = "get_event_receiver" /\ pc'[t] = "returning"
                  /\ ~res'[t].ok) => HAS_LISTENERS' = HAS_LISTENERS
            /\ (op[t] = "get_event_receiver" /\ pc[t] = "returning"
                  /\ pc'[t] # "returning") =>
                 /\ nRecv' = nRecv + 1
                 /\ HAS_LISTENERS' = HAS_LISTENERS]_vars

\* C10's case: receivers were handed out although no subscription ever
\* succeeded, the last call having failed on the poisoned lock
C10_Witness ==
    /\ nRecv >= 2
    /\ ~HAS_LISTENERS
    /\ poisoned

\* C11: whenever notify_explorer_restarted returns Ok, the factory was invoked
\* exactly once during the call and the cell holds the live Ready handle that
\* invocation produced.
C11_NotifyOkMeansRecreated ==
    \A t \in Threads :
        (pc[t] = "returning" /\ op[t] = "notify_explorer_restarted" /\ res[t].ok) =>
            /\ nFactory[t] = 1
            /\ SERVICE.ready
            /\ SERVICE.h \in alive

C13_ClassifierTwoOutcomes ==
    (phase = "done" /\ input.fn = "error_side_effect") =>
        /\ output.v = IF input.err \in RecoverableCauses THEN ROk(1) ELSE ROk(0)
        /\ output.inits > 0 => input.err = ComErr("CO_E_NOTINITIALIZED")

\* C13 (amended): as claimed, except that for NotInitialized the answer is
\* Recoverable only when init_runtime succeeds; when it fails, the answer is
\* the error init_runtime failed with.  init_runtime is called once for
\* NotInitialized and never for another cause.
C13_ClassifierOutcomes ==
    (phase = "done" /\ input.fn = "error_side_effect") =>
        /\ output.v =
             IF input.err = ComErr("CO_E_NOTINITIALIZED") /\ input.initRes # "S_OK"
             THEN RErr(ComErr(input.initRes))
             ELSE IF input.err \in RecoverableCauses THEN ROk(1) ELSE ROk(0)
        /\ output.inits = IF input.err = ComErr("CO_E_NOTINITIALIZED") THEN 1 ELSE 0

\* C13's case: the bootstrap cause was classified Recoverable without a call
\* of init_runtime
C13_Witness ==
    /\ phase = "done" /\ input.fn = "error_side_effect"
    /\ input.err = ErrServiceNotCreated
    /\ output = [v |-> ROk(1), inits |-> 0]

\* C14: at most one service handle produced by the factory is alive at any
\* time, the recreation steps of with_service and notify_explorer_restarted
\* included.
C14_AtMostOneLiveHandle ==
    Cardinality(alive) <= 1

\* C15: an index-taking function resolves the index first, in the same run
\* of its closure; with the component answering, an out-of-range index gives
\* DesktopNotFound whether or not the window exists and nothing but the
\* lookup was issued, and a valid index with a nonexistent window gives
\* WindowNotFound.
C15_IndexResolvedFirst ==
    (phase = "done" /\ input.fn \in IndexOps) =>
        /\ Head(output.issued) = "get_desktop_by_index"
        /\ (input.f1 = NoErr /\ input.desktop >= DesktopCount) =>
             /\ output.r = RErr(ErrDesktopNotFound)
             /\ output.issued = <<"get_desktop_by_index">>
        /\ (input.f1 = NoErr /\ input.f2 = NoErr /\ input.desktop < DesktopCount
              /\ input.fn \in WindowOps /\ input.hwnd \notin Windows) =>
             /\ output.r = RErr(ErrWindowNotFound)
             /\ output.issued = <<"get_desktop_by_index", input.fn>>

\* C15's case: move_window_to_desktop of a nonexistent window to an
\* out-of-range index answered DesktopNotFound
C15_Witness ==
    /\ phase = "done" /\ input.fn = "move_window_to_desktop"
    /\ input.hwnd \notin Windows /\ input.desktop > DesktopCount
    /\ output.r = RErr(ErrDesktopNotFound)

\* ------------------------------------------- the component healthy again
\* HealthySpec starts where an outage may have left the program: no call in
\* progress, the cell holding the bootstrap reason, the error of a failed
\* create, or a handle.  From then on the environment is healthy: create
\* succeeds, nothing panics, a request on a handle created since succeeds,
\* and a request on the handle a call found in the cell succeeds or fails
\* with a recoverable cause.  The program's steps are those of Next.
HealthyInit ==
    /\ SERVICE \in {Unavailable(e) : e \in FactoryErrors \cup {ErrServiceNotCreated}}
                     \cup {Ready(1)}
    /\ alive = IF SERVICE.ready THEN {SERVICE.h} ELSE {}
    /\ undisturbed \in BOOLEAN
    /\ (~SERVICE.ready /\ SERVICE.err # ErrServiceNotCreated) => ~undisturbed
    /\ lockHolder = NoThread
    /\ poisoned = FALSE
    /\ HAS_LISTENERS = FALSE
    /\ EVENTS = <<>>
    /\ subscribed = {}
    /\ nEvents = 0
    /\ nRecv = 0
    /\ received = [r \in Receivers |-> <<>>]
    /\ recreated = FALSE
    /\ client = "requests"
    /\ ThreadsIdle
    /\ phase = "-"
    /\ input = "-"
    /\ output = "-"

HealthyEnv ==
    \A t \in Threads :
        /\ pc'[t] # "panicked"
        /\ (pc[t] = "idle" /\ pc'[t] # "idle" /\ op'[t] \in IndexOps) =>
             (hwnd'[t] \in Windows /\ desktop'[t] < DesktopCount)
        /\ (pc[t] \in {"create", "n_create"} /\ pc'[t] # pc[t]) => created'[t].ready
        /\ (pc[t] = "cb" /\ pc'[t] # "cb") =>
             \/ pc'[t] = "returning" /\ res'[t].ok
             \/ /\ nFactory[t] = 0
                /\ pc'[t] = "classify"
                /\ lastErr'[t] \in RecoverableCauses

HealthyNext == Next /\ HealthyEnv

HealthySpec == HealthyInit /\ [][HealthyNext]_vars

\* a call that went through an iteration without invoking the callback (it
\* read the cell Unavailable) has invoked the factory
SkippedMeansFactory ==
    \A t \in Threads :
        (/\ op[t] \in WithServiceOps /\ ~lockFailed[t] /\ nCb[t] <= i[t]
         /\ \/ pc[t] \in {"replace", "returning"}
            \/ pc[t] \in {"head", "cb", "classify"} /\ i[t] >= 1) =>
            nFactory[t] >= 1

C17_NotifyFailureKeepsCell ==
    [][\A t \in Threads :
         /\ (pc[t] = "n_create" /\ pc'[t] # "n_create") =>
              /\ SERVICE' = SERVICE
              /\ IF created'[t].ready
                 THEN pc'[t] = "n_replace"
                 ELSE /\ pc'[t] = "returning"
                      /\ res'[t] = RErr(created'[t].err)
                      /\ created'[t].err \in FactoryErrors
                      /\ alive' = alive
         /\ (pc[t] = "n_replace" /\ pc'[t] # "n_replace") =>
              /\ created[t].ready
              /\ SERVICE' = created[t]
         /\ (op[t] = "notify_explorer_restarted" /\ pc[t] = "returning") =>
              SERVICE' = SERVICE]_vars

\* C17's case: notify_explorer_restarted returns the error of the factory
\* while the cell still holds the handle it held before
C17_Witness ==
    \E t \in Threads :
        /\ pc[t] = "returning" /\ op[t] = "notify_explorer_restarted"
        /\ nFactory[t] = 1
        /\ res[t] = RErr(ComErr("RPC_S_SERVER_UNAVAILABLE"))
        /\ SERVICE.ready /\ alive = {SERVICE.h}

\* the step of thread t that ends the classification of a NotInitialized
\* raised by the callback by returning hr, the code init_runtime failed with
ReturnsInitFailure(t, hr) ==
    /\ Classify(t)
    /\ pc'[t] = "returning"
    /\ res'[t] = RErr(ComErr(hr))

\* C18: when the callback raised NotInitialized, every code init_runtime can
\* fail with is returned by the next step of the call without a factory
\* invocation and with the cell as it was (the other outcome being the
\* recreation step, when init_runtime succeeds); when NotInitialized is the
\* reason stored in an Unavailable cell, the next step is the recreation
\* step whatever init_runtime answers, and nothing is returned.
C18_InitFailureReturnedOnlyFromCallback ==
    /\ [](\A t \in Threads :
            (pc[t] = "classify" /\ lastErr[t] = ComErr("CO_E_NOTINITIALIZED")) =>
                \A hr \in HResults : ENABLED ReturnsInitFailure(t, hr))
    /\ [][\A t \in Threads :
            /\ (pc[t] = "classify" /\ lastErr[t] = ComErr("CO_E_NOTINITIALIZED")
                  /\ pc'[t] # "classify") =>
                 /\ UNCHANGED <<SERVICE, alive, nFactory, nCb>>
                 /\ \/ pc'[t] = "create" /\ res'[t] = NoRes
                    \/ /\ pc'[t] = "returning"
                       /\ \E hr \in HResults : res'[t] = RErr(ComErr(hr))
            /\ (pc[t] = "head" /\ i[t] < 6 /\ pc'[t] # "head"
                  /\ SERVICE = Unavailable(ComErr("CO_E_NOTINITIALIZED"))) =>
                 /\ pc'[t] = "create"
                 /\ res'[t] = NoRes
                 /\ UNCHANGED <<SERVICE, nFactory>>]_vars

\* C18's case: a call returns the failure of init_runtime (a code the
\* callback did not raise: a fatal one would have been returned as raised)
\* after one callback invocation, the cell still holding that handle
C18_Witness ==
    \E t \in Threads :
        /\ pc[t] = "returning" /\ nCb[t] = 1 /\ nFactory[t] = 0
        /\ res[t] = RErr(ComErr("REGDB_E_CLASSNOTREG"))
        /\ SERVICE = Ready(snap[t])

\* the iterations of its loop a call has entered, and those among them in
\* which it read the cell Unavailable and so invoked no callback
Entered(t) ==
    IF \/ pc[t] \in {"cb", "classify", "create", "replace"}
       \/ pc[t] = "returning" /\ i[t] < 6 /\ ~lockFailed[t]
    THEN i[t] + 1 ELSE i[t]
Skipped(t) == Entered(t) - nCb[t]

\* C19: every iteration in which a call read the cell Unavailable is one
\* callback invocation less out of 6, so a call that starts with the cell
\* Unavailable (its first iteration is such a one) invokes the callback at
\* most 5 times; the result of the 6th factory invocation is stored and the
\* call then returns ServiceNotCreated without another callback invocation,
\* the cell keeping what was stored; and a call that finds the cell Ready
\* invokes the callback on that handle before any factory invocation.
C19_LastHandleNotInvoked ==
    /\ [](\A t \in Threads :
            /\ Entered(t) <= 6 /\ Skipped(t) >= 0
            /\ nCb[t] + Skipped(t) <= 6)
    /\ [][\A t \in Threads :
            /\ (pc[t] = "head" /\ i[t] = 0 /\ ~SERVICE.ready /\ pc'[t] # "head") =>
                 Skipped(t)' = 1
            /\ (pc[t] # "idle" /\ pc'[t] \notin {"idle", "panicked"}) =>
                 Skipped(t)' >= Skipped(t)
            /\ (pc[t] = "replace" /\ nFactory[t] = 6 /\ pc'[t] # "replace") =>
                 /\ SERVICE' = created[t]
                 /\ pc'[t] = "head" /\ i'[t] = 6
            /\ (pc[t] = "head" /\ i[t] = 6 /\ pc'[t] # "head") =>
                 /\ pc'[t] = "returning"
                 /\ res'[t] = RErr(ErrServiceNotCreated)
                 /\ UNCHANGED <<SERVICE, alive, nCb>>
            /\ (pc[t] = "returning" /\ pc'[t] # "returning") =>
                 UNCHANGED <<SERVICE, alive>>
            /\ (pc[t] = "head" /\ i[t] = 0 /\ SERVICE.ready /\ pc'[t] # "head") =>
                 /\ pc'[t] = "cb"
                 /\ snap'[t] = SERVICE.h
                 /\ nCb'[t] = 1 /\ nFactory'[t] = 0]_vars

\* C19's case: a call that started with the cell Unavailable returns
\* ServiceNotCreated after 5 callback invocations, leaving in the cell the
\* live handle its 6th factory invocation produced
C19_Witness ==
    \E t \in Threads :
        /\ pc[t] = "returning" /\ res[t] = RErr(ErrServiceNotCreated)
        /\ nFactory[t] = 6 /\ nCb[t] = 5 /\ ~lockFailed[t]
        /\ SERVICE.ready /\ alive = {SERVICE.h}

\* C20: once the SERVICE mutex is poisoned it stays poisoned; from then on
\* no thread is inside the protocol past the failed lock(), every
\* with_service call returns ServiceNotCreated and every
\* notify_explorer_restarted returns Ok, none of them invoking the callback
\* or the factory, and the cell and the live handles never change.
C20_PoisonedIsPermanent ==
    /\ [](poisoned =>
            \A t \in Threads :
                /\ pc[t] \in {"idle", "panicked", "returning"}
                /\ pc[t] = "returning" =>
                     /\ lockFailed[t]
                     /\ nCb[t] = 0 /\ nFactory[t] = 0
                     /\ res[t] = IF op[t] = "notify_explorer_restarted"
                                 THEN ROk(0) ELSE RErr(ErrServiceNotCreated))
    /\ [][poisoned => (poisoned' /\ UNCHANGED <<SERVICE, alive, subscribed>>)]_vars

\* C20's case: after a thread panicked under the lock, another thread gets
\* Ok from notify_explorer_restarted with no factory invocation, the cell
\* still holding the handle of before
C20_Witness ==
    \E t, u \in Threads :
        /\ poisoned
        /\ pc[t] = "panicked"
        /\ pc[u] = "returning" /\ op[u] = "notify_explorer_restarted"
        /\ res[u] = ROk(0) /\ nFactory[u] = 0
        /\ SERVICE.ready /\ SERVICE.h \in alive

====
